---- MODULE Spec2Model ----
(***************************************************************************)
(* Model of the fan controller of fan_control.py: the temperature -> PWM   *)
(* curve (calculate_pwm_from_temp), the control loop (auto_control) with   *)
(* its manual-mode setup, ramp smoothing, key handling and the restore of  *)
(* BIOS control on exit, and the sysfs files the loop writes.              *)
(*                                                                         *)
(* Temperatures are whole degrees Celsius (sysfs values are multiples of   *)
(* 1000 millidegrees), so that every float the curve computes from them is *)
(* modelled exactly by the binary64 operators below.                       *)
(***************************************************************************)
EXTENDS Integers, Sequences, FiniteSets, TLC

VARIABLES
    temp_min, temp_max, pwm_min, pwm_max,   \* curve parameters (self.temp_min ...)
    pwm_decrease_step,                      \* self.pwm_decrease_step
    max_iterations,                         \* argument of auto_control; 0 stands for None
    is_interactive,                         \* sys.stdout.isatty() and not force_daemon
    manual_pwm_offset,                      \* self.manual_pwm_offset
    current_pwm,                            \* self.current_pwm; None before the first tick
    iteration_count,                        \* local of auto_control
    pc,                                     \* position of auto_control
    i,                                      \* index of the manual-mode setup loop
    control_temps,                          \* local: result of get_control_temperatures
    target_pwm,                             \* local: offset target of the last tick
    ramp_case,                              \* the branch of the ramp the last tick took
    enable_file, pwm_file,                  \* contents of pwmN_enable / pwmN
    hw,                                     \* how each actuator's files behave
    last_writes,                            \* the file writes the last step attempted
    keys,                                   \* typed keys not yet read from stdin
    keys_typed,                             \* number of keys typed so far
    restore_calls,                          \* calls of restore_all_bios_control
    manual_started,                         \* some enable file took the write of "1"
    notice,                                 \* the last step printed the no-reading notice
    ticks_since_quit,                       \* ticks run while a quit key was pending
    exit_cause,                             \* how auto_control was left
    curve_temp, curve_out,                  \* argument and result of the curve
    curve_temp2, curve_out2,                \* argument and result of the call before
    temp_sensors,                           \* self.temp_sensors, the registry of sources
    fan_sensors,                            \* self.fan_sensors
    probe,                                  \* what the files answer while _detect_hardware runs
    reading,                                \* what the files answered to the last reader call
    all_temps,                              \* result of the last get_temperatures call
    scenario,                               \* a planned sequence of control temperatures
    applies,                                \* successive set_pwm_value rounds with one value
    restore_report,                         \* what restore_all_bios_control counted
    is_root,                                \* os.geteuid() == 0
    args,                                   \* the flags parsed by main
    mode_file,                              \* contents of pwmN_mode
    mode_rw,                                \* whether pwmN_mode takes a write
    test_outcome,                           \* how test_pwm_responsiveness left each channel
    devices,                                \* the hwmon devices _detect_hardware finds
    pwm_controls,                           \* self.pwm_controls, the registry of actuators
    hwmon_path,                             \* self.hwmon_path
    ramp_start                              \* current_pwm when the target began to stay

vars == << temp_min, temp_max, pwm_min, pwm_max, pwm_decrease_step,
           max_iterations, is_interactive, manual_pwm_offset, current_pwm,
           iteration_count, pc, i, control_temps, target_pwm, ramp_case,
           enable_file, pwm_file, hw, last_writes, keys, keys_typed,
           restore_calls, manual_started, notice, ticks_since_quit,
           exit_cause, curve_temp, curve_out, curve_temp2, curve_out2,
           temp_sensors, fan_sensors, probe, reading, all_temps, scenario,
           applies, restore_report, is_root, args, mode_file, mode_rw,
           test_outcome, devices, pwm_controls, hwmon_path, ramp_start >>

\* Python's None for current_pwm (every PWM value the loop computes is >= 0).
None == -1

(***************************************************************************)
(* binary64 arithmetic, round to nearest even, as Python's float.          *)
(* The magnitude of a float is held exactly as a fixed-point number: a     *)
(* little-endian sequence of NumLimbs limbs of LimbBits bits, the lowest   *)
(* FracLimbs of them after the binary point.  Every float the curve        *)
(* computes (a ratio in 2^-27..1, its product with a PWM span, the sum     *)
(* with a PWM bound) is a multiple of 2^-80 below 2^32, so it is such a    *)
(* number, and rounding it to 53 significant bits is the rounding of the   *)
(* float operation.                                                        *)
(***************************************************************************)
MantissaBits == 53

LimbBits == 16

Base == 65536

FracLimbs == 5

NumLimbs == 7

Abs(x) == IF x < 0 THEN -x ELSE x

Sgn(x) == IF x < 0 THEN -1 ELSE 1

ZeroLimbs == [j \in 1..NumLimbs |-> 0]

\* bit k (from 0) of the fixed-point number N
Bit(N, k) == (N[(k \div LimbBits) + 1] \div (2 ^ (k % LimbBits))) % 2

\* number of significant bits of N
BitLen(N) ==
    IF N = ZeroLimbs THEN 0
    ELSE LET top == CHOOSE j \in 1..NumLimbs :
                        N[j] # 0 /\ \A k \in (j + 1)..NumLimbs : N[k] = 0
             w   == CHOOSE b \in 1..LimbBits :
                        N[top] >= 2 ^ (b - 1) /\ N[top] < 2 ^ b
         IN  (top - 1) * LimbBits + w

\* limbs j..NumLimbs of A + B + carry
RECURSIVE AddFrom(_, _, _, _)
AddFrom(A, B, j, carry) ==
    IF j > NumLimbs THEN <<>>
    ELSE LET v == A[j] + B[j] + carry
         IN  <<v % Base>> \o AddFrom(A, B, j + 1, v \div Base)

AddLimbs(A, B) == AddFrom(A, B, 1, 0)

\* limbs j..NumLimbs of A - B - borrow, for A >= B
RECURSIVE SubFrom(_, _, _, _)
SubFrom(A, B, j, borrow) ==
    IF j > NumLimbs THEN <<>>
    ELSE LET v == A[j] - B[j] - borrow
         IN  <<v % Base>> \o SubFrom(A, B, j + 1, IF v < 0 THEN 1 ELSE 0)

SubLimbs(A, B) == SubFrom(A, B, 1, 0)

LessLimbs(A, B) ==
    \E j \in 1..NumLimbs :
        A[j] < B[j] /\ \A k \in (j + 1)..NumLimbs : A[k] = B[k]

\* limbs j..NumLimbs of A * r + carry, for 0 <= r < 2^15
RECURSIVE MulFrom(_, _, _, _)
MulFrom(A, r, j, carry) ==
    IF j > NumLimbs THEN <<>>
    ELSE LET v == A[j] * r + carry
         IN  <<v % Base>> \o MulFrom(A, r, j + 1, v \div Base)

MulLimbs(A, r) == MulFrom(A, r, 1, 0)

\* N with its lowest k bits cleared
ClearLow(N, k) ==
    [j \in 1..NumLimbs |->
        IF j * LimbBits <= k THEN 0
        ELSE IF (j - 1) * LimbBits >= k THEN N[j]
        ELSE N[j] - (N[j] % (2 ^ (k - (j - 1) * LimbBits)))]

Pow2Limbs(k) ==
    [j \in 1..NumLimbs |-> IF j = (k \div LimbBits) + 1 THEN 2 ^ (k % LimbBits) ELSE 0]

\* N (plus a nonzero amount below its last bit when inexact) rounded to 53
\* significant bits, ties to even
RoundDouble(N, inexact) ==
    IF BitLen(N) <= MantissaBits THEN N
    ELSE LET drop   == BitLen(N) - MantissaBits
             sticky == inexact \/ \E k \in 0..(drop - 2) : Bit(N, k) = 1
             up     == Bit(N, drop - 1) = 1 /\ (sticky \/ Bit(N, drop) = 1)
         IN  IF up THEN AddLimbs(ClearLow(N, drop), Pow2Limbs(drop))
             ELSE ClearLow(N, drop)

\* the k limbs of r/d after the binary point, for 0 <= r < d < 2^15
RECURSIVE FracLimbsOf(_, _, _)
FracLimbsOf(r, d, k) ==
    IF k = 0 THEN <<>>
    ELSE FracLimbsOf((r * Base) % d, d, k - 1) \o <<(r * Base) \div d>>

RECURSIVE RemAfter(_, _, _)
RemAfter(r, d, k) == IF k = 0 THEN r ELSE RemAfter((r * Base) % d, d, k - 1)

\* float(n) / float(d) for integers 0 <= n < 2^16 * d, 0 < d < 2^15
FDiv(n, d) ==
    [sign |-> 1,
     mag  |-> RoundDouble(FracLimbsOf(n % d, d, FracLimbs) \o <<n \div d, 0>>,
                          RemAfter(n % d, d, FracLimbs) # 0)]

\* x * float(r) for a float x and an integer r, |r| < 2^15
FMul(x, r) ==
    [sign |-> IF r = 0 THEN 1 ELSE x.sign * Sgn(r),
     mag  |-> RoundDouble(MulLimbs(x.mag, Abs(r)), FALSE)]

\* float(p) + y for an integer p, |p| < 2^15, and a float y
FAdd(p, y) ==
    LET P == [j \in 1..NumLimbs |-> IF j = FracLimbs + 1 THEN Abs(p) ELSE 0]
    IN  IF Sgn(p) = y.sign \/ p = 0 \/ y.mag = ZeroLimbs
            THEN [sign |-> IF y.mag = ZeroLimbs THEN Sgn(p) ELSE y.sign,
                  mag  |-> RoundDouble(AddLimbs(P, y.mag), FALSE)]
        ELSE IF LessLimbs(P, y.mag)
            THEN [sign |-> y.sign, mag |-> RoundDouble(SubLimbs(y.mag, P), FALSE)]
        ELSE [sign |-> Sgn(p), mag |-> RoundDouble(SubLimbs(P, y.mag), FALSE)]

\* int(x): truncation toward zero
FloatToInt(x) == x.sign * (x.mag[FracLimbs + 1] + Base * x.mag[FracLimbs + 2])

(***************************************************************************)
(* Curve engine                                                            *)
(***************************************************************************)
\* the curve with the ratio taken from temp_max downwards
calculate_pwm_descending(temp) ==
    IF temp <= temp_min THEN pwm_min
    ELSE IF temp >= temp_max THEN pwm_max
    ELSE LET ratio == FDiv(temp_max - temp, temp_max - temp_min)
             pwm   == FAdd(pwm_min, FMul(ratio, pwm_max - pwm_min))
         IN  FloatToInt(pwm)

calculate_pwm_from_temp(temp) ==
    IF temp <= temp_min THEN pwm_min
    ELSE IF temp >= temp_max THEN pwm_max
    ELSE LET ratio == FDiv(temp - temp_min, temp_max - temp_min)
             pwm   == FAdd(pwm_min, FMul(ratio, pwm_max - pwm_min))
         IN  FloatToInt(pwm)

(***************************************************************************)
(* Bounds of the model                                                     *)
(***************************************************************************)
\* PWM actuators in self.pwm_controls
NumPwm == 2

\* keys that can wait unread in stdin
MaxPending == 1

\* keys typed during one run
MaxKeys == 1

\* iteration cap of a bounded run (-n)
MaxIter == 2

\* successive rounds of set_pwm_value with one value that are counted
MaxApplies == 3

\* passes of the while loop with a control temperature that are followed
MaxTicks == 3

(***************************************************************************)
(* Configuration: what main() copies into the controller.  Neither         *)
(* load_config nor main checks any of the values.                          *)
(***************************************************************************)
DefaultConfig ==
    [temp_min |-> 45, temp_max |-> 80, pwm_min |-> 10, pwm_max |-> 255,
     pwm_decrease_step |-> 5]

Configs ==
    { DefaultConfig,
      [DefaultConfig EXCEPT !.pwm_decrease_step = 100],
      [DefaultConfig EXCEPT !.pwm_decrease_step = 0],
      [DefaultConfig EXCEPT !.pwm_decrease_step = -5] }

(***************************************************************************)
(* Hardware: the registry built by _detect_hardware and the sysfs files.   *)
(***************************************************************************)
\* the temperature sources of the machine in the order _detect_hardware meets
\* them: the temp*_input files of the hwmon devices, then the GPU
SensorFiles ==
    << [path |-> "temp1_input", label |-> "Package id 0", device_name |-> "coretemp"],
       [path |-> "temp2_input", label |-> "SYSTIN",       device_name |-> "nct6775"],
       [path |-> "nvidia-smi",  label |-> "GPU",          device_name |-> "nvidia"] >>

\* the fan*_input files; fan1_input belongs to the device of temp2_input
FanFiles == << [path |-> "fan1_input", label |-> "nct6775_fan1"] >>

FanPaths == { FanFiles[f].path : f \in 1..Len(FanFiles) }

SensorPaths == { SensorFiles[s].path : s \in 1..Len(SensorFiles) }

SensorOf(path) == CHOOSE s \in 1..Len(SensorFiles) : SensorFiles[s].path = path

\* what read_file can return for a temperature file: None (written NoFile,
\* a number no file holds) when the file is missing or unreadable, else its
\* text (millidegrees)
NoFile == -999

\* path.read_text() raises an OSError that read_file does not catch (EIO,
\* EAGAIN, ENODEV ...), written as a number no file holds
ReadError == -998

CoreReadings == {NoFile, ReadError, -5000, 40000, 90000}

BoardReadings == {NoFile, 95000}

\* what nvidia-smi can answer: nothing (failure, timeout), else degrees
GpuReadings == {NoFile, 70}

Readings ==
    { r \in [SensorPaths -> CoreReadings \cup BoardReadings \cup GpuReadings] :
        \A s \in 1..Len(SensorFiles) :
            r[SensorFiles[s].path] \in
                CASE SensorFiles[s].device_name = "coretemp" -> CoreReadings
                  [] SensorFiles[s].device_name = "nvidia"   -> GpuReadings
                  [] OTHER                                   -> BoardReadings }

\* how the files of one actuator behave
\*   ok        every write is taken
\*   enable_ro writes to pwmN_enable fail
\*   pwm_ro    writes to pwmN fail
\*   no_auto   pwmN_enable takes "1" but keeps its value when "2" is written
HwClasses == {"ok", "enable_ro", "pwm_ro", "no_auto"}

\* the first actuator may misbehave, or none can be switched to manual mode
HwCases ==
    { [a \in 1..NumPwm |-> IF a = 1 THEN c ELSE "ok"] : c \in HwClasses }
    \cup { [a \in 1..NumPwm |-> "enable_ro"] }

\* ... and, when Shutdown is followed on its own, also
\*   readback_err  pwmN_enable takes every write; reading it back raises an
\*                 OSError that read_file does not catch
RestoreHwClasses == HwClasses \cup {"readback_err"}

InitialEnable == "5"

InitialPwm == 128

Actuators == 1..NumPwm

\* write_file(enable_path, value): the result and the new content
EnableWriteOk(a) == hw[a] # "enable_ro"

EnableAfterWrite(a, value, content) ==
    IF ~EnableWriteOk(a) THEN content
    ELSE IF hw[a] = "no_auto" /\ value = "2" THEN content
    ELSE value

\* write_file(pwm_path, value)
PwmWriteOk(a) == hw[a] # "pwm_ro"

(***************************************************************************)
(* Telemetry reader                                                        *)
(***************************************************************************)
\* int(value) / 1000.0 for a multiple of 1000
MilliToC(value) == value \div 1000

\* the entry a reader makes for registry entry s under the file contents r
SensorKept(s, r) ==
    /\ r[temp_sensors[s].path] # NoFile
    /\ \/ temp_sensors[s].path = "nvidia-smi"
       \/ (0 < MilliToC(r[temp_sensors[s].path])
             /\ MilliToC(r[temp_sensors[s].path]) < 120)

SensorValue(s, r) ==
    IF temp_sensors[s].path = "nvidia-smi" THEN r[temp_sensors[s].path]
    ELSE MilliToC(r[temp_sensors[s].path])

\* the mapping label -> temperature built from the registry entries in S
TempsOf(S, r) ==
    [ l \in { temp_sensors[s].label : s \in S } |->
        SensorValue(CHOOSE t \in S : temp_sensors[t].label = l, r) ]

\* registry entries that feed the curve
ControlSensors ==
    { s \in 1..Len(temp_sensors) :
        temp_sensors[s].device_name \in {"coretemp", "nvidia"} }

\* read_file raises in get_control_temperatures: a sysfs control source
\* whose read raises an OSError
ControlReadRaises(r) ==
    \E s \in ControlSensors :
        temp_sensors[s].path # "nvidia-smi" /\ r[temp_sensors[s].path] = ReadError

\* get_control_temperatures: label -> temperature for the file contents r
get_control_temperatures(r) ==
    TempsOf({ s \in ControlSensors : SensorKept(s, r) }, r)

\* get_temperatures: the same over every registry entry
get_temperatures(r) ==
    TempsOf({ s \in 1..Len(temp_sensors) : SensorKept(s, r) }, r)

\* max(control_temps.values())
MaxOf(S) == CHOOSE x \in S : \A y \in S : y <= x

Range(f) == { f[x] : x \in DOMAIN f }

(***************************************************************************)
(* Actuation driver                                                        *)
(***************************************************************************)
\* set_pwm_value over all actuators: the writes attempted
set_pwm_value_writes(value) ==
    IF ~(0 <= value /\ value <= 255) THEN <<>>
    ELSE [a \in Actuators |->
            [file |-> "pwm", idx |-> a, value |-> value, ok |-> PwmWriteOk(a)]]

\* the write that puts 0 where the value already stands
set_pwm_value_toggling(value) ==
    IF ~(0 <= value /\ value <= 255) THEN pwm_file
    ELSE [a \in Actuators |->
            IF ~PwmWriteOk(a) THEN pwm_file[a]
            ELSE IF pwm_file[a] = value THEN 0 ELSE value]

\* the writes of a tick given up at the first actuator that fails
set_pwm_value_until_failure(value) ==
    IF ~(0 <= value /\ value <= 255) THEN pwm_file
    ELSE [a \in Actuators |->
            IF \A b \in 1..a : PwmWriteOk(b) THEN value ELSE pwm_file[a]]

\* ... and the content of the pwm files after them
set_pwm_value_files(value) ==
    IF ~(0 <= value /\ value <= 255) THEN pwm_file
    ELSE [a \in Actuators |-> IF PwmWriteOk(a) THEN value ELSE pwm_file[a]]

\* the restore that trusts the result of the write
restore_without_readback(a) == EnableWriteOk(a)

\* restore_bios_control(enable_path): write "2", read it back
restore_bios_control(a) ==
    EnableWriteOk(a) /\ EnableAfterWrite(a, "2", enable_file[a]) = "2"

\* read_file(enable_path) raises inside restore_bios_control
ReadbackRaises(a) == EnableWriteOk(a) /\ hw[a] = "readback_err"

\* restore_all_bios_control: the actuator at which the loop is left by an
\* exception (0: none), the actuators whose enable file is written, and
\* those for which restore_bios_control returns
RaiseAt ==
    IF \E a \in Actuators : ReadbackRaises(a)
    THEN CHOOSE a \in Actuators :
            ReadbackRaises(a) /\ \A b \in Actuators : ReadbackRaises(b) => a <= b
    ELSE 0

Attempted == IF RaiseAt = 0 THEN Actuators ELSE 1..RaiseAt

Judged == Attempted \ {RaiseAt}

\* the file writes of restore_all_bios_control from actuator a on, in order
RECURSIVE RestoreWrites(_)
RestoreWrites(a) ==
    IF a \notin Attempted THEN << >>
    ELSE << [file |-> "enable", idx |-> a, value |-> "2", ok |-> EnableWriteOk(a)] >>
         \o (IF a \in Judged /\ ~restore_bios_control(a)
             THEN << [file |-> "pwm", idx |-> a, value |-> 128, ok |-> PwmWriteOk(a)] >>
             ELSE << >>)
         \o RestoreWrites(a + 1)

\* success_count, failed_pwms and whether the call was left by an exception
RestoreReport ==
    [success_count |-> Cardinality({ a \in Judged : restore_bios_control(a) }),
     failed_pwms   |-> { a \in Judged : ~restore_bios_control(a) },
     raised        |-> RaiseAt # 0]

NoReport == [success_count |-> 0, failed_pwms |-> {}, raised |-> FALSE]

(***************************************************************************)
(* Control loop: auto_control                                              *)
(***************************************************************************)
Clamp(x, lo, hi) == IF x < lo THEN lo ELSE IF x > hi THEN hi ELSE x

Min(x, y) == IF x < y THEN x ELSE y

\* the ramp without the slow fall
RampSymmetric(cur, target) == target

\* the ramp falling by a full step whatever is left to the target
RampFullStep(cur, target) ==
    IF cur = None THEN target
    ELSE IF target > cur THEN target
    ELSE cur - pwm_decrease_step

\* the ramp falling by half a step
RampHalfStep(cur, target) ==
    IF cur = None THEN target
    ELSE IF target > cur THEN target
    ELSE cur - Min(cur - target, pwm_decrease_step \div 2)

\* the asymmetric ramp: the value applied for an offset target
RampSmoother(cur, target) ==
    IF cur = None THEN target
    ELSE IF target > cur THEN target
    ELSE cur - Min(cur - target, pwm_decrease_step)

\* the branch of the ramp taken: "hold" and "fall" are its else branch
RampCase(cur, target) ==
    IF cur = None THEN "bootstrap"
    ELSE IF target > cur THEN "rise"
    ELSE IF target = cur THEN "hold"
    ELSE "fall"

\* positions inside the try block of auto_control
Running == {"loop", "gap_sleep", "key_sleep", "daemon_sleep"}

QuitPending == \E k \in 1..Len(keys) : keys[k] = "q"

CountTick == IF QuitPending THEN Min(ticks_since_quit + 1, 2) ELSE ticks_since_quit

config_vars == << temp_min, temp_max, pwm_min, pwm_max, pwm_decrease_step,
                  max_iterations, is_interactive, hw >>

curve_vars == << curve_temp, curve_out, curve_temp2, curve_out2 >>

\* what main, test_pwm_responsiveness and the discovery of the PWM controls
\* work on, and the ghost of the ramp; auto_control assigns none of them
main_vars == << is_root, args, mode_file, mode_rw, test_outcome, devices,
                pwm_controls, hwmon_path, ramp_start >>

\* the registry and the ghosts of discovery and of the reader calls, none of
\* which auto_control assigns
env_vars == << temp_sensors, fan_sensors, probe, reading, all_temps, scenario,
              applies, main_vars >>

\* main(): the controller takes the merged configuration as it is
ConfigIs(c) ==
    /\ temp_min = c.temp_min
    /\ temp_max = c.temp_max
    /\ pwm_min = c.pwm_min
    /\ pwm_max = c.pwm_max
    /\ pwm_decrease_step = c.pwm_decrease_step

\* the fields set by FanController.__init__, the locals of auto_control
\* and the files before any write
LoopVarsInit ==
    /\ manual_pwm_offset = 0
    /\ current_pwm = None
    /\ iteration_count = 0
    /\ i = 1
    /\ control_temps = << >>
    /\ target_pwm = None
    /\ ramp_case = "none"
    /\ enable_file = [a \in Actuators |-> InitialEnable]
    /\ pwm_file = [a \in Actuators |-> InitialPwm]
    /\ last_writes = << >>
    /\ keys = << >>
    /\ keys_typed = 0
    /\ restore_calls = 0
    /\ manual_started = FALSE
    /\ notice = FALSE
    /\ ticks_since_quit = 0
    /\ exit_cause = "running"
    /\ restore_report = NoReport

\* FanController.__init__ and the entry of auto_control
LoopInit ==
    /\ pc = "manual_setup"
    /\ LoopVarsInit

\* the registry of a machine on which every source passed discovery; no
\* reader call is followed on its own ...
Registered ==
    /\ temp_sensors = SensorFiles
    /\ fan_sensors = FanFiles
    /\ probe = << >>
    /\ reading = << >>
    /\ all_temps = << >>
    /\ applies = 0

\* ... and no scenario is planned
Discovered == Registered /\ scenario = << >>

\* no temperature has been given to the curve yet
CurveIdle ==
    /\ curve_temp = None
    /\ curve_out = None
    /\ curve_temp2 = None
    /\ curve_out2 = None

\* the flags of a plain "fan_control.py --auto"
AutoArgs == [auto |-> TRUE, watch |-> FALSE, test_pwm |-> FALSE, test_pwm_full |-> FALSE]

\* the configured device
ConfiguredHwmon == 0

\* the controller of a root user which is not asked to test its channels,
\* each of which has a pwmN_mode file in PWM mode ...
NoTest ==
    /\ is_root = TRUE
    /\ args = AutoArgs
    /\ mode_file = [a \in Actuators |-> "1"]
    /\ mode_rw = [a \in Actuators |-> TRUE]
    /\ test_outcome = [a \in Actuators |-> "untested"]
    /\ ramp_start = None

\* ... and whose PWM controls were all found on the first device
MainIdle ==
    /\ NoTest
    /\ devices = << >>
    /\ pwm_controls = [a \in Actuators |-> [device |-> 1, num |-> a]]
    /\ hwmon_path = 1

Init ==
    /\ \E c \in Configs : ConfigIs(c)
    /\ max_iterations \in {0, MaxIter}
    /\ is_interactive \in BOOLEAN
    /\ hw \in HwCases
    /\ LoopInit
    /\ Discovered
    /\ CurveIdle
    /\ MainIdle

\* the setup loop given up at the first enable file that refuses the write
SetManualModeUntilFailure ==
    /\ pc = "manual_setup"
    /\ i <= NumPwm
    /\ enable_file' = [enable_file EXCEPT ![i] = EnableAfterWrite(i, "1", @)]
    /\ manual_started' = (manual_started \/ EnableWriteOk(i))
    /\ last_writes' = << [file |-> "enable", idx |-> i, value |-> "1",
                         ok |-> EnableWriteOk(i)] >>
    /\ i' = i + 1
    /\ pc' = IF i = NumPwm \/ ~EnableWriteOk(i) THEN "sleep1" ELSE "manual_setup"
    /\ notice' = FALSE
    /\ UNCHANGED << config_vars, env_vars, restore_report, curve_vars, manual_pwm_offset, current_pwm,
                    iteration_count, control_temps, target_pwm, ramp_case,
                    pwm_file, keys, keys_typed, restore_calls,
                    ticks_since_quit, exit_cause >>

\* one pass of the loop that sets the channels to manual mode
SetManualMode ==
    /\ pc = "manual_setup"
    /\ i <= NumPwm
    /\ enable_file' = [enable_file EXCEPT ![i] = EnableAfterWrite(i, "1", @)]
    /\ manual_started' = (manual_started \/ EnableWriteOk(i))
    /\ last_writes' = << [file |-> "enable", idx |-> i, value |-> "1",
                         ok |-> EnableWriteOk(i)] >>
    /\ i' = i + 1
    /\ pc' = IF i = NumPwm THEN "sleep1" ELSE "manual_setup"
    /\ notice' = FALSE
    /\ UNCHANGED << config_vars, env_vars, restore_report, curve_vars, manual_pwm_offset, current_pwm,
                    iteration_count, control_temps, target_pwm, ramp_case,
                    pwm_file, keys, keys_typed, restore_calls,
                    ticks_since_quit, exit_cause >>

\* the loop entered without waiting for the setup of the channels
EnterLoopEarly ==
    /\ pc \in {"manual_setup", "sleep1"}
    /\ pc' = "loop"
    /\ iteration_count' = 0
    /\ last_writes' = << >>
    /\ notice' = FALSE
    /\ UNCHANGED << config_vars, env_vars, restore_report, curve_vars, manual_pwm_offset, current_pwm, i,
                    control_temps, target_pwm, ramp_case, enable_file, pwm_file,
                    keys, keys_typed, restore_calls, manual_started,
                    ticks_since_quit, exit_cause >>

\* time.sleep(1) ends; the try block and the keyboard handler are entered
EnterLoop ==
    /\ pc = "sleep1"
    /\ pc' = "loop"
    /\ iteration_count' = 0
    /\ last_writes' = << >>
    /\ notice' = FALSE
    /\ UNCHANGED << config_vars, env_vars, restore_report, curve_vars, manual_pwm_offset, current_pwm, i,
                    control_temps, target_pwm, ramp_case, enable_file, pwm_file,
                    keys, keys_typed, restore_calls, manual_started,
                    ticks_since_quit, exit_cause >>

\* the pass without a control temperature leaving the loop instead of
\* sleeping and continuing
GapTickBreaks(r) ==
    /\ pc = "loop"
    /\ ~ControlReadRaises(r)
    /\ get_control_temperatures(r) = << >>
    /\ control_temps' = << >>
    /\ notice' = TRUE
    /\ pc' = "finally"
    /\ last_writes' = << >>
    /\ ticks_since_quit' = CountTick
    /\ UNCHANGED << config_vars, env_vars, restore_report, curve_vars, manual_pwm_offset, current_pwm,
                    iteration_count, i, target_pwm, ramp_case, enable_file,
                    pwm_file, keys, keys_typed, restore_calls, manual_started,
                    exit_cause >>

\* a pass of the while loop that finds no control temperature
GapTick(r) ==
    /\ pc = "loop"
    /\ ~ControlReadRaises(r)
    /\ get_control_temperatures(r) = << >>
    /\ control_temps' = << >>
    /\ notice' = TRUE
    /\ pc' = "gap_sleep"
    /\ last_writes' = << >>
    /\ ticks_since_quit' = CountTick
    /\ UNCHANGED << config_vars, env_vars, restore_report, curve_vars, manual_pwm_offset, current_pwm,
                    iteration_count, i, target_pwm, ramp_case, enable_file,
                    pwm_file, keys, keys_typed, restore_calls, manual_started,
                    exit_cause >>

\* a pass of the while loop with a control temperature
Tick(r) ==
    /\ pc = "loop"
    /\ iteration_count < MaxTicks
    /\ ~ControlReadRaises(r)
    /\ get_control_temperatures(r) # << >>
    /\ LET temps     == get_control_temperatures(r)
           max_temp  == MaxOf(Range(temps))
           base_pwm  == calculate_pwm_from_temp(max_temp)
           target    == Clamp(base_pwm + manual_pwm_offset, 0, 255)
           pwm_value == RampSmoother(current_pwm, target)
           capped    == max_iterations # 0 /\ iteration_count + 1 >= max_iterations
       IN  /\ control_temps' = temps
           /\ target_pwm' = target
           /\ ramp_case' = RampCase(current_pwm, target)
           /\ current_pwm' = pwm_value
           /\ pwm_file' = set_pwm_value_files(pwm_value)
           /\ last_writes' = set_pwm_value_writes(pwm_value)
           /\ iteration_count' = iteration_count + 1
           /\ pc' = IF capped THEN "finally"
                    ELSE IF is_interactive THEN "key_sleep" ELSE "daemon_sleep"
           /\ exit_cause' = IF capped THEN "max_iterations" ELSE exit_cause
    /\ notice' = FALSE
    /\ ticks_since_quit' = CountTick
    /\ UNCHANGED << config_vars, env_vars, restore_report, curve_vars, manual_pwm_offset, i, enable_file,
                    keys, keys_typed, restore_calls, manual_started >>

\* time.sleep(interval) after the notice ends
GapSleepDone ==
    /\ pc = "gap_sleep"
    /\ pc' = "loop"
    /\ last_writes' = << >>
    /\ notice' = FALSE
    /\ UNCHANGED << config_vars, env_vars, restore_report, curve_vars, manual_pwm_offset, current_pwm,
                    iteration_count, i, control_temps, target_pwm, ramp_case,
                    enable_file, pwm_file, keys, keys_typed, restore_calls,
                    manual_started, ticks_since_quit, exit_cause >>

\* daemon mode: time.sleep(interval) ends
DaemonSleepDone ==
    /\ pc = "daemon_sleep"
    /\ pc' = "loop"
    /\ last_writes' = << >>
    /\ notice' = FALSE
    /\ UNCHANGED << config_vars, env_vars, restore_report, curve_vars, manual_pwm_offset, current_pwm,
                    iteration_count, i, control_temps, target_pwm, ramp_case,
                    enable_file, pwm_file, keys, keys_typed, restore_calls,
                    manual_started, ticks_since_quit, exit_cause >>

\* the offset moving by ten whatever its value
OffsetUnclamped(offset, key) ==
    IF key = "w" THEN offset + 10
    ELSE IF key = "s" THEN offset - 10
    ELSE offset

\* the manual offset after the key: +10 / -10, held within -255..255
OffsetAfterKey(offset, key) ==
    IF key = "w" THEN Min(offset + 10, 255)
    ELSE IF key = "s" THEN -Min(-(offset - 10), 255)
    ELSE offset

\* the key handled without leaving the wait: the offset moves, the tick
\* comes when the interval has passed
PollKeyKeepsWaiting ==
    /\ pc = "key_sleep"
    /\ keys # << >>
    /\ LET key == Head(keys)
       IN  /\ keys' = Tail(keys)
           /\ manual_pwm_offset' = OffsetAfterKey(manual_pwm_offset, key)
           /\ pc' = IF key = "q" THEN "finally" ELSE "key_sleep"
           /\ exit_cause' = IF key = "q" THEN "quit" ELSE exit_cause
    /\ last_writes' = << >>
    /\ notice' = FALSE
    /\ UNCHANGED << config_vars, env_vars, restore_report, curve_vars, current_pwm, iteration_count, i,
                    control_temps, target_pwm, ramp_case, enable_file, pwm_file,
                    keys_typed, restore_calls, manual_started,
                    ticks_since_quit >>

\* interactive mode: kb.get_key returns a key during the sleep
PollKey ==
    /\ pc = "key_sleep"
    /\ keys # << >>
    /\ LET key == Head(keys)
       IN  /\ keys' = Tail(keys)
           /\ manual_pwm_offset' = OffsetAfterKey(manual_pwm_offset, key)
           /\ pc' = IF key = "q" THEN "finally"
                    ELSE IF key \in {"w", "s"} THEN "loop"
                    ELSE "key_sleep"
           /\ exit_cause' = IF key = "q" THEN "quit" ELSE exit_cause
    /\ last_writes' = << >>
    /\ notice' = FALSE
    /\ UNCHANGED << config_vars, env_vars, restore_report, curve_vars, current_pwm, iteration_count, i,
                    control_temps, target_pwm, ramp_case, enable_file, pwm_file,
                    keys_typed, restore_calls, manual_started,
                    ticks_since_quit >>

\* interactive mode: the interval has passed
SleepElapsed ==
    /\ pc = "key_sleep"
    /\ pc' = "loop"
    /\ last_writes' = << >>
    /\ notice' = FALSE
    /\ UNCHANGED << config_vars, env_vars, restore_report, curve_vars, manual_pwm_offset, current_pwm,
                    iteration_count, i, control_temps, target_pwm, ramp_case,
                    enable_file, pwm_file, keys, keys_typed, restore_calls,
                    manual_started, ticks_since_quit, exit_cause >>

\* a pass of the while loop in which read_file raises an OSError for a
\* control source: get_control_temperatures does not catch it, nor does
\* auto_control; the finally clause runs, then it propagates
LoopException(r) ==
    /\ pc = "loop"
    /\ ControlReadRaises(r)
    /\ pc' = "finally"
    /\ exit_cause' = "read_exception"
    /\ last_writes' = << >>
    /\ notice' = FALSE
    /\ UNCHANGED << config_vars, env_vars, restore_report, curve_vars, manual_pwm_offset, current_pwm,
                    iteration_count, i, control_temps, target_pwm, ramp_case,
                    enable_file, pwm_file, keys, keys_typed, restore_calls,
                    manual_started, ticks_since_quit >>

\* SIGINT: KeyboardInterrupt is raised where auto_control stands.  Inside the
\* try block it is caught and the finally clause follows; during the manual
\* mode setup and time.sleep(1), which precede the try, it leaves auto_control.
Interrupt ==
    /\ pc \in Running \cup {"manual_setup", "sleep1"}
    /\ pc' = IF pc \in Running THEN "finally" ELSE "done"
    /\ exit_cause' = IF pc \in Running THEN "interrupt" ELSE "interrupt_in_setup"
    /\ last_writes' = << >>
    /\ notice' = FALSE
    /\ UNCHANGED << config_vars, env_vars, restore_report, curve_vars, manual_pwm_offset, current_pwm,
                    iteration_count, i, control_temps, target_pwm, ramp_case,
                    enable_file, pwm_file, keys, keys_typed, restore_calls,
                    manual_started, ticks_since_quit >>

\* the finally clause: restore_all_bios_control
RestoreAll ==
    /\ pc = "finally"
    /\ restore_calls' = restore_calls + 1
    /\ enable_file' = [a \in Actuators |->
                         IF a \in Attempted
                         THEN EnableAfterWrite(a, "2", enable_file[a])
                         ELSE enable_file[a]]
    /\ pwm_file' = [a \in Actuators |->
                      IF a \in Judged /\ ~restore_bios_control(a) /\ PwmWriteOk(a)
                      THEN 128
                      ELSE pwm_file[a]]
    /\ last_writes' = RestoreWrites(1)
    /\ restore_report' = RestoreReport
    /\ pc' = "done"
    /\ notice' = FALSE
    /\ UNCHANGED << config_vars, env_vars, curve_vars, manual_pwm_offset, current_pwm,
                    iteration_count, i, control_temps, target_pwm, ramp_case,
                    keys, keys_typed, manual_started, ticks_since_quit,
                    exit_cause >>

\* the operator types a key
KeyPress(k) ==
    /\ pc # "done"
    /\ Len(keys) < MaxPending
    /\ keys_typed < MaxKeys
    /\ keys' = Append(keys, k)
    /\ keys_typed' = keys_typed + 1
    /\ UNCHANGED << config_vars, env_vars, restore_report, curve_vars, manual_pwm_offset, current_pwm,
                    iteration_count, pc, i, control_temps, target_pwm, ramp_case,
                    enable_file, pwm_file, last_writes, restore_calls,
                    manual_started, notice, ticks_since_quit, exit_cause >>

KeySet == {"q", "w", "s"}

ProgramNext ==
    \/ SetManualMode
    \/ EnterLoop
    \/ \E r \in Readings : GapTick(r)
    \/ \E r \in Readings : Tick(r)
    \/ GapSleepDone
    \/ DaemonSleepDone
    \/ PollKey
    \/ SleepElapsed
    \/ \E r \in Readings : LoopException(r)
    \/ RestoreAll

Next ==
    \/ ProgramNext
    \/ Interrupt
    \/ \E k \in KeySet : KeyPress(k)

Spec == Init /\ [][Next]_vars

\* the loop runs on: every step of auto_control is eventually taken
FairSpec == Spec /\ WF_vars(ProgramNext)

(***************************************************************************)
(* The curve on its own: calculate_pwm_from_temp applied to temperatures   *)
(* under several configurations.                                           *)
(***************************************************************************)
CurveConfigs ==
    { DefaultConfig,
      [DefaultConfig EXCEPT !.pwm_max = 40],
      [DefaultConfig EXCEPT !.pwm_min = 100, !.pwm_max = 100],
      [DefaultConfig EXCEPT !.temp_min = 40, !.temp_max = 50, !.pwm_min = 0, !.pwm_max = 90],
      [DefaultConfig EXCEPT !.temp_min = 40, !.temp_max = 51, !.pwm_max = 197],
      [DefaultConfig EXCEPT !.pwm_min = 255, !.pwm_max = 10] }

\* lowest and highest temperature given to the curve
CurveTempLow == 38

CurveTempHigh == 82

CurveTemps == CurveTempLow..CurveTempHigh

CurveInit ==
    /\ \E c \in CurveConfigs : ConfigIs(c)
    /\ max_iterations = 0
    /\ is_interactive = FALSE
    /\ hw = [a \in Actuators |-> "ok"]
    /\ LoopInit
    /\ Discovered
    /\ CurveIdle
    /\ MainIdle

\* the curve is applied to t; the call before it is remembered
Evaluate(t) ==
    /\ curve_temp' = t
    /\ curve_out' = calculate_pwm_from_temp(t)
    /\ curve_temp2' = curve_temp
    /\ curve_out2' = curve_out
    /\ UNCHANGED << config_vars, env_vars, restore_report, manual_pwm_offset, current_pwm, iteration_count,
                    pc, i, control_temps, target_pwm, ramp_case, enable_file,
                    pwm_file, last_writes, keys, keys_typed, restore_calls,
                    manual_started, notice, ticks_since_quit, exit_cause >>

CurveNext == \E t \in CurveTemps : Evaluate(t)

CurveSpec == CurveInit /\ [][CurveNext]_vars

(***************************************************************************)
(* The loop in daemon mode under a planned sequence of CPU temperatures,   *)
(* default configuration.                                                  *)
(***************************************************************************)
ScenarioTemps == {40, 50, 60, 90, 100}

Scenarios == [1..MaxTicks -> ScenarioTemps]

\* the CPU package sensor reports t degrees, every other source is silent
ScenarioReading(t) ==
    [p \in SensorPaths |-> IF p = "temp1_input" THEN 1000 * t ELSE NoFile]

ScenarioInit ==
    /\ ConfigIs(DefaultConfig)
    /\ max_iterations = 0
    /\ is_interactive = FALSE
    /\ hw = [a \in Actuators |-> "ok"]
    /\ LoopInit
    /\ Registered
    /\ scenario \in Scenarios
    /\ CurveIdle
    /\ MainIdle

\* the next pass of the loop reads the next temperature of the scenario
ScenarioTick ==
    /\ iteration_count < Len(scenario)
    /\ Tick(ScenarioReading(scenario[iteration_count + 1]))

ScenarioNext ==
    \/ SetManualMode
    \/ EnterLoop
    \/ ScenarioTick
    \/ DaemonSleepDone

ScenarioSpec == ScenarioInit /\ [][ScenarioNext]_vars

(***************************************************************************)
(* The key handler on its own: any sequence of Increase / Decrease keys,   *)
(* each read by kb.get_key as soon as it is typed.                         *)
(***************************************************************************)
KeyInit ==
    /\ ConfigIs(DefaultConfig)
    /\ max_iterations = 0
    /\ is_interactive = TRUE
    /\ hw = [a \in Actuators |-> "ok"]
    /\ LoopInit
    /\ Discovered
    /\ CurveIdle
    /\ MainIdle

\* the branch of the key loop for the key k
HandleKey(k) ==
    /\ manual_pwm_offset' = OffsetAfterKey(manual_pwm_offset, k)
    /\ UNCHANGED << config_vars, env_vars, restore_report, curve_vars,
                    current_pwm, iteration_count, pc, i, control_temps,
                    target_pwm, ramp_case, enable_file, pwm_file, last_writes,
                    keys, keys_typed, restore_calls, manual_started, notice,
                    ticks_since_quit, exit_cause >>

KeyNext == \E k \in {"w", "s"} : HandleKey(k)

KeySpec == KeyInit /\ [][KeyNext]_vars

(***************************************************************************)
(* Shutdown under every combination of actuator faults: the loop in daemon *)
(* mode, default configuration, left by the iteration cap, an interrupt or *)
(* a read exception.                                                       *)
(***************************************************************************)
RestoreHwCases == [Actuators -> RestoreHwClasses]

RestoreInit ==
    /\ ConfigIs(DefaultConfig)
    /\ max_iterations = MaxIter
    /\ is_interactive = FALSE
    /\ hw \in RestoreHwCases
    /\ LoopInit
    /\ Discovered
    /\ CurveIdle
    /\ MainIdle

RestoreNext ==
    \/ SetManualMode
    \/ EnterLoop
    \/ \E r \in Readings : GapTick(r)
    \/ \E r \in Readings : Tick(r)
    \/ GapSleepDone
    \/ DaemonSleepDone
    \/ \E r \in Readings : LoopException(r)
    \/ Interrupt
    \/ RestoreAll

RestoreSpec == RestoreInit /\ [][RestoreNext]_vars

(***************************************************************************)
(* The actuation driver on its own: rounds of set_pwm_value over all       *)
(* actuators (lines 878-879) with any value.                               *)
(***************************************************************************)
ApplyValues == -1..256

ApplyInit ==
    /\ ConfigIs(DefaultConfig)
    /\ max_iterations = 0
    /\ is_interactive = FALSE
    /\ hw \in HwCases
    /\ LoopInit
    /\ Discovered
    /\ CurveIdle
    /\ MainIdle

\* set_pwm_value(pwm_path, v) for every actuator
Apply(v) ==
    /\ pwm_file' = set_pwm_value_files(v)
    /\ last_writes' = set_pwm_value_writes(v)
    /\ applies' = IF ~(0 <= v /\ v <= 255) THEN 0
                  ELSE IF last_writes # << >> /\ last_writes[1].value = v
                       THEN Min(applies + 1, MaxApplies)
                       ELSE 1
    /\ UNCHANGED << config_vars, temp_sensors, fan_sensors, probe, reading,
                    all_temps, scenario, main_vars, restore_report, curve_vars,
                    manual_pwm_offset, current_pwm, iteration_count, pc, i,
                    control_temps, target_pwm, ramp_case, enable_file, keys,
                    keys_typed, restore_calls, manual_started, notice,
                    ticks_since_quit, exit_cause >>

ApplyNext == \E v \in ApplyValues : Apply(v)

ApplySpec == ApplyInit /\ [][ApplyNext]_vars

(***************************************************************************)
(* Startup with bounds that are out of order or out of range, given in the *)
(* configuration file or on the command line.                              *)
(***************************************************************************)
FaultyConfigs ==
    { [DefaultConfig EXCEPT !.temp_min = 80, !.temp_max = 45],
      [DefaultConfig EXCEPT !.temp_min = 60, !.temp_max = 60],
      [DefaultConfig EXCEPT !.pwm_min = 200, !.pwm_max = 100],
      [DefaultConfig EXCEPT !.pwm_max = 300] }

StartupInit ==
    /\ \E c \in FaultyConfigs : ConfigIs(c)
    /\ max_iterations \in {0, MaxIter}
    /\ is_interactive \in BOOLEAN
    /\ hw = [a \in Actuators |-> "ok"]
    /\ LoopInit
    /\ Discovered
    /\ CurveIdle
    /\ MainIdle

StartupSpec == StartupInit /\ [][Next]_vars

(***************************************************************************)
(* Discovery and the readers on their own: _detect_hardware builds the     *)
(* registries from what the files answer at construction, then             *)
(* get_temperatures and get_control_temperatures are called (as            *)
(* display_status does) under any later file contents.                     *)
(***************************************************************************)
\* read_file returns '' (an empty file) / a text that is not a number,
\* written as numbers no file holds
EmptyText == -997

Garbage == -996

SysfsProbes == {NoFile, ReadError, EmptyText, Garbage, -5000, 0, 40000, 120000, 121000}

BoardProbes == {NoFile, 95000, 130000}

\* nvidia-smi at discovery: not available, or a line with name and temperature
GpuProbes == {NoFile, 70}

FanProbes == {NoFile, 0, 1200}

Probes ==
    { [p \in SensorPaths \cup FanPaths |->
          CASE p = "temp1_input" -> c
            [] p = "temp2_input" -> b
            [] p = "nvidia-smi"  -> g
            [] OTHER             -> f] :
      c \in SysfsProbes, b \in BoardProbes, g \in GpuProbes, f \in FanProbes }

\* lines 166-176 and 220-223: is the candidate f appended to temp_sensors
DetectAccepts(f) ==
    IF f.path = "nvidia-smi" THEN probe[f.path] # NoFile
    ELSE LET value == probe[f.path]
         IN  IF value \in {NoFile, EmptyText} THEN TRUE
             ELSE IF value = Garbage THEN FALSE
             ELSE ~(value <= 0 \/ value > 120000)

\* the first temp*_input whose validation read raises (0: none)
DetectRaiseAt ==
    LET raising == { s \in 1..Len(SensorFiles) :
                       /\ SensorFiles[s].path # "nvidia-smi"
                       /\ probe[SensorFiles[s].path] = ReadError }
    IN  IF raising = {} THEN 0
        ELSE CHOOSE s \in raising : \A t \in raising : s <= t

\* temp_sensors as appended from candidate s on
RECURSIVE DetectFrom(_)
DetectFrom(s) ==
    IF s > Len(SensorFiles) \/ s = DetectRaiseAt THEN << >>
    ELSE (IF DetectAccepts(SensorFiles[s]) THEN << SensorFiles[s] >> ELSE << >>)
         \o DetectFrom(s + 1)

ReaderReadings ==
    { [p \in SensorPaths |->
          CASE p = "temp1_input" -> c
            [] p = "temp2_input" -> b
            [] OTHER             -> g] :
      c \in {NoFile, ReadError, -5000, 40000, 120000},
      b \in {NoFile, 95000},
      g \in {NoFile, 0, 70, 130} }

\* read_file raises in get_temperatures
AnyReadRaises(r) ==
    \E s \in 1..Len(temp_sensors) :
        temp_sensors[s].path # "nvidia-smi" /\ r[temp_sensors[s].path] = ReadError

\* what a device holds for the channel number n: no pwmN file, a pwmN file
\* without pwmN_enable, or both
PwmKinds == {"absent", "no_enable", "controllable"}

NumDevices == 2

DeviceLayouts == [1..NumDevices -> [1..NumPwm -> PwmKinds]]

\* the machine of the other specifications: every channel on the first device
OneBoard ==
    [d \in 1..NumDevices |->
        [n \in 1..NumPwm |-> IF d = 1 THEN "controllable" ELSE "absent"]]

\* lines 193-210 for the channel numbers of device d from n on
RECURSIVE DetectPwmOn(_, _)
DetectPwmOn(d, n) ==
    IF n > NumPwm THEN << >>
    ELSE (IF devices[d][n] = "controllable"
          THEN << [device |-> d, num |-> n] >>
          ELSE << >>)
         \o DetectPwmOn(d, n + 1)

\* pwm_controls as appended from device d on: the scan of line 146 goes
\* through every device
RECURSIVE DetectPwmFrom(_)
DetectPwmFrom(d) ==
    IF d > Len(devices) THEN << >>
    ELSE DetectPwmOn(d, 1) \o DetectPwmFrom(d + 1)

\* lines 207-208: hwmon_path after the scan
DetectHwmonPath ==
    IF DetectPwmFrom(1) = << >> THEN hwmon_path ELSE DetectPwmFrom(1)[1].device

SensorInit ==
    /\ ConfigIs(DefaultConfig)
    /\ max_iterations = 0
    /\ is_interactive = FALSE
    /\ hw = [a \in Actuators |-> "ok"]
    /\ pc = "construct"
    /\ LoopVarsInit
    /\ temp_sensors = << >>
    /\ fan_sensors = << >>
    /\ probe \in Probes
    /\ reading = << >>
    /\ all_temps = << >>
    /\ scenario = << >>
    /\ applies = 0
    /\ CurveIdle
    /\ NoTest
    /\ devices = OneBoard
    /\ pwm_controls = << >>
    /\ hwmon_path = ConfiguredHwmon

\* FanController.__init__ calls _detect_hardware
Detect ==
    /\ pc = "construct"
    /\ temp_sensors' = DetectFrom(1)
    /\ fan_sensors' = IF DetectRaiseAt = 0 THEN FanFiles ELSE << >>
    /\ pwm_controls' = IF DetectRaiseAt = 0 THEN DetectPwmFrom(1) ELSE << >>
    /\ hwmon_path' = IF DetectRaiseAt = 0 THEN DetectHwmonPath ELSE hwmon_path
    /\ pc' = IF DetectRaiseAt = 0 THEN "constructed" ELSE "construct_failed"
    /\ UNCHANGED << is_root, args, mode_file, mode_rw, test_outcome, devices,
                    ramp_start >>
    /\ UNCHANGED << config_vars, probe, reading, all_temps, scenario, applies,
                    restore_report, curve_vars, manual_pwm_offset, current_pwm,
                    iteration_count, i, control_temps, target_pwm, ramp_case,
                    enable_file, pwm_file, last_writes, keys, keys_typed,
                    restore_calls, manual_started, notice, ticks_since_quit,
                    exit_cause >>

\* get_temperatures, then get_control_temperatures, under the file contents r
Read(r) ==
    /\ pc = "constructed"
    /\ reading' = r
    /\ IF AnyReadRaises(r)
       THEN /\ pc' = "read_failed"
            /\ UNCHANGED << all_temps, control_temps >>
       ELSE /\ pc' = pc
            /\ all_temps' = get_temperatures(r)
            /\ control_temps' = get_control_temperatures(r)
    /\ UNCHANGED << config_vars, temp_sensors, fan_sensors, probe, scenario,
                    applies, main_vars, restore_report, curve_vars, manual_pwm_offset,
                    current_pwm, iteration_count, i, target_pwm, ramp_case,
                    enable_file, pwm_file, last_writes, keys, keys_typed,
                    restore_calls, manual_started, notice, ticks_since_quit,
                    exit_cause >>

SensorNext ==
    \/ Detect
    \/ \E r \in ReaderReadings : Read(r)

SensorSpec == SensorInit /\ [][SensorNext]_vars

\* discovery of the PWM controls: every file answers a plausible value, the
\* devices hold the channels in any layout
GoodProbe ==
    [p \in SensorPaths \cup FanPaths |->
        CASE p = "temp1_input" -> 40000
          [] p = "temp2_input" -> 95000
          [] p = "nvidia-smi"  -> 70
          [] OTHER             -> 1200]

DiscoveryInit ==
    /\ ConfigIs(DefaultConfig)
    /\ max_iterations = 0
    /\ is_interactive = FALSE
    /\ hw = [a \in Actuators |-> "ok"]
    /\ pc = "construct"
    /\ LoopVarsInit
    /\ temp_sensors = << >>
    /\ fan_sensors = << >>
    /\ probe = GoodProbe
    /\ reading = << >>
    /\ all_temps = << >>
    /\ scenario = << >>
    /\ applies = 0
    /\ CurveIdle
    /\ NoTest
    /\ devices \in DeviceLayouts
    /\ pwm_controls = << >>
    /\ hwmon_path = ConfiguredHwmon

DiscoverySpec == DiscoveryInit /\ [][SensorNext]_vars

(***************************************************************************)
(* The tick: from the reading to the value applied, on the default curve   *)
(* and on a curve whose interpolation is not exact in binary floating      *)
(* point, with a board sensor hotter than every control source             *)
(***************************************************************************)
TargetConfigs ==
    { DefaultConfig,
      [DefaultConfig EXCEPT !.temp_min = 40, !.temp_max = 50,
                            !.pwm_min = 0, !.pwm_max = 90] }

TargetReadings ==
    { r \in [SensorPaths -> {NoFile, 43000, 47000, 95000, 45}] :
        \A s \in 1..Len(SensorFiles) :
            r[SensorFiles[s].path] \in
                CASE SensorFiles[s].device_name = "coretemp" -> {NoFile, 43000, 47000}
                  [] SensorFiles[s].device_name = "nvidia"   -> {NoFile, 45}
                  [] OTHER                                   -> {NoFile, 95000} }

TargetInit ==
    /\ \E c \in TargetConfigs : ConfigIs(c)
    /\ max_iterations = 0
    /\ is_interactive = TRUE
    /\ hw = [a \in Actuators |-> "ok"]
    /\ LoopInit
    /\ Discovered
    /\ CurveIdle
    /\ MainIdle

TargetNext ==
    \/ SetManualMode
    \/ EnterLoop
    \/ \E r \in TargetReadings : GapTick(r)
    \/ \E r \in TargetReadings : Tick(r)
    \/ GapSleepDone
    \/ PollKey
    \/ SleepElapsed
    \/ \E k \in {"w", "s"} : KeyPress(k)

TargetSpec == TargetInit /\ [][TargetNext]_vars

(***************************************************************************)
(* The ramp under a target that stays: lines 862-875 applied tick after    *)
(* tick to one offset target                                               *)
(***************************************************************************)
RampSteps == {1, 5, 100}

RampStarts == {None, 0, 100, 255}

RampTargets == {0, 100, 115, 255}

MaxRampTicks == 256

RampInit ==
    /\ \E s \in RampSteps : ConfigIs([DefaultConfig EXCEPT !.pwm_decrease_step = s])
    /\ max_iterations = 0
    /\ is_interactive = FALSE
    /\ hw = [a \in Actuators |-> "ok"]
    /\ pc = "loop"
    /\ manual_pwm_offset = 0
    /\ current_pwm \in RampStarts
    /\ ramp_start = current_pwm
    /\ target_pwm \in RampTargets
    /\ iteration_count = 0
    /\ i = NumPwm + 1
    /\ control_temps = << >>
    /\ ramp_case = "none"
    /\ enable_file = [a \in Actuators |-> "1"]
    /\ pwm_file = [a \in Actuators |-> InitialPwm]
    /\ last_writes = << >>
    /\ keys = << >>
    /\ keys_typed = 0
    /\ restore_calls = 0
    /\ manual_started = TRUE
    /\ notice = FALSE
    /\ ticks_since_quit = 0
    /\ exit_cause = "running"
    /\ restore_report = NoReport
    /\ Discovered
    /\ CurveIdle
    /\ is_root = TRUE
    /\ args = AutoArgs
    /\ mode_file = [a \in Actuators |-> "1"]
    /\ mode_rw = [a \in Actuators |-> TRUE]
    /\ test_outcome = [a \in Actuators |-> "untested"]
    /\ devices = << >>
    /\ pwm_controls = [a \in Actuators |-> [device |-> 1, num |-> a]]
    /\ hwmon_path = 1

\* one more tick whose offset target is the same
RampTick ==
    /\ iteration_count < MaxRampTicks
    /\ LET pwm_value == RampSmoother(current_pwm, target_pwm)
       IN  /\ ramp_case' = RampCase(current_pwm, target_pwm)
           /\ current_pwm' = pwm_value
           /\ pwm_file' = set_pwm_value_files(pwm_value)
           /\ last_writes' = set_pwm_value_writes(pwm_value)
    /\ iteration_count' = iteration_count + 1
    /\ UNCHANGED << config_vars, env_vars, restore_report, curve_vars,
                    manual_pwm_offset, pc, i, control_temps, target_pwm,
                    enable_file, keys, keys_typed, restore_calls,
                    manual_started, notice, ticks_since_quit, exit_cause >>

RampNext == RampTick

RampSpec == RampInit /\ [][RampNext]_vars

\* the loop keeps ticking
RampFairSpec == RampSpec /\ WF_vars(RampNext)

(***************************************************************************)
(* main after the controller is configured (lines 1144-1208) and           *)
(* test_pwm_responsiveness (lines 232-411).  A channel test is one step:   *)
(* its file writes, in order, are kept in last_writes.                     *)
(***************************************************************************)
\* the fields of the loop and its files that main and the channel test leave
\* alone
loop_locals == << manual_pwm_offset, current_pwm, control_temps, target_pwm,
                 ramp_case, restore_calls, manual_started, notice,
                 ticks_since_quit, restore_report >>

registry_vars == << temp_sensors, fan_sensors, probe, scenario, applies,
                   devices, pwm_controls, hwmon_path, ramp_start >>

\* --auto, --watch, --test-pwm, --test-pwm-full in every combination
AllArgs == [auto : BOOLEAN, watch : BOOLEAN, test_pwm : BOOLEAN, test_pwm_full : BOOLEAN]

\* lines 1153-1164: the flags after the privilege check
ArgsAfterRootCheck ==
    IF ~is_root THEN [args EXCEPT !.watch = TRUE, !.auto = FALSE]
    ELSE IF ~args.auto /\ ~args.watch THEN [args EXCEPT !.auto = TRUE]
    ELSE args

\* the dispatch that trusts the flags
MainDispatchUnchecked ==
    /\ pc = "main"
    /\ IF args.test_pwm \/ args.test_pwm_full
       THEN /\ pc' = "test_pwm"
            /\ args' = args
            /\ exit_cause' = exit_cause
       ELSE /\ args' = IF ~args.auto /\ ~args.watch THEN [args EXCEPT !.auto = TRUE] ELSE args
            /\ pc' = IF args'.auto THEN "manual_setup" ELSE "watch"
            /\ exit_cause' = exit_cause
    /\ last_writes' = << >>
    /\ UNCHANGED << config_vars, curve_vars, registry_vars, loop_locals,
                    reading, all_temps, is_root, mode_file, mode_rw,
                    test_outcome, iteration_count, i, enable_file, pwm_file,
                    keys, keys_typed >>

\* lines 1144-1169 (and 240-242): where main goes
MainDispatch ==
    /\ pc = "main"
    /\ IF args.test_pwm \/ args.test_pwm_full
       THEN /\ pc' = IF is_root THEN "test_pwm" ELSE "done"
            /\ args' = args
            /\ exit_cause' = IF is_root THEN exit_cause ELSE "test_skipped"
       ELSE /\ args' = ArgsAfterRootCheck
            /\ pc' = IF args'.auto THEN "manual_setup" ELSE "watch"
            /\ exit_cause' = exit_cause
    /\ last_writes' = << >>
    /\ UNCHANGED << config_vars, curve_vars, registry_vars, loop_locals,
                    reading, all_temps, is_root, mode_file, mode_rw,
                    test_outcome, iteration_count, i, enable_file, pwm_file,
                    keys, keys_typed >>

\* watch mode: display_status reads the sensors under the file contents r
WatchTick(r) ==
    /\ pc = "watch"
    /\ iteration_count < MaxTicks
    /\ reading' = r
    /\ IF \E s \in 1..Len(temp_sensors) :
             temp_sensors[s].path # "nvidia-smi" /\ r[temp_sensors[s].path] = ReadError
       THEN /\ pc' = "done"
            /\ exit_cause' = "read_exception"
            /\ UNCHANGED << all_temps, iteration_count >>
       ELSE /\ all_temps' = get_temperatures(r)
            /\ iteration_count' = iteration_count + 1
            /\ pc' = IF max_iterations # 0 /\ iteration_count + 1 >= max_iterations
                     THEN "done" ELSE "watch"
            /\ exit_cause' = IF pc' = "done" THEN "max_iterations" ELSE exit_cause
    /\ last_writes' = << >>
    /\ UNCHANGED << config_vars, curve_vars, registry_vars, loop_locals,
                    is_root, args, mode_file, mode_rw, test_outcome, i,
                    enable_file, pwm_file, keys, keys_typed >>

\* watch mode: kb.get_key returns a key; only the quit key ends the loop
WatchKey ==
    /\ pc = "watch"
    /\ keys # << >>
    /\ keys' = Tail(keys)
    /\ pc' = IF Head(keys) = "q" THEN "done" ELSE "watch"
    /\ exit_cause' = IF Head(keys) = "q" THEN "quit" ELSE exit_cause
    /\ last_writes' = << >>
    /\ UNCHANGED << config_vars, curve_vars, registry_vars, loop_locals,
                    reading, all_temps, is_root, args, mode_file, mode_rw,
                    test_outcome, iteration_count, i, enable_file, pwm_file,
                    keys_typed >>

\* the texts a fanN_input read returns during the test: None, a text that
\* is not a number, an OSError that read_file does not catch, an RPM value
RpmTexts == {NoFile, Garbage, ReadError, 1200}

\* the reads of one channel test: the initial one, then baseline and new
\* RPM of the first and of the second mode tested
RpmReads == [1..5 -> RpmTexts]

FanPathOf(a) ==
    CASE a = 1 -> "fan1_input"
      [] a = 2 -> "fan2_input"
      [] OTHER -> "fan3_input"

\* lines 258-262: a fan sensor whose path holds "fan<N>"
HasFanSensor(a) == \E k \in 1..Len(fan_sensors) : fan_sensors[k].path = FanPathOf(a)

\* lines 287-291
ModesToTest(a) == IF args.test_pwm_full THEN << "1", "0" >> ELSE << mode_file[a] >>

TestWrite(file, a, value, ok) == [file |-> file, idx |-> a, value |-> value, ok |-> ok]

\* lines 294-351: the writes of the pass for the k-th mode and how it ends:
\* "next" (the for loop goes on), "value_error", "os_error"
TestModePass(a, k, rpm) ==
    LET mode_value == ModesToTest(a)[k]
        w_manual   == << TestWrite("enable", a, "1", EnableWriteOk(a)) >>
        w_mode     == IF mode_value # mode_file[a]
                      THEN << TestWrite("mode", a, mode_value, mode_rw[a]) >>
                      ELSE << >>
        w_base     == << TestWrite("pwm", a, 128, PwmWriteOk(a)) >>
        w_test     == << TestWrite("pwm", a, 220, PwmWriteOk(a)) >>
        w_back     == << TestWrite("pwm", a, pwm_file[a], PwmWriteOk(a)) >>
        baseline   == rpm[2 * k]
        new        == rpm[2 * k + 1]
    IN  IF mode_value # mode_file[a] /\ ~mode_rw[a]
        THEN [writes |-> w_manual \o w_mode, ends |-> "next"]
        ELSE IF baseline = NoFile
        THEN [writes |-> w_manual \o w_mode \o w_base, ends |-> "next"]
        ELSE IF baseline = ReadError
        THEN [writes |-> w_manual \o w_mode \o w_base, ends |-> "os_error"]
        ELSE IF baseline = Garbage
        THEN [writes |-> w_manual \o w_mode \o w_base, ends |-> "value_error"]
        ELSE IF new = ReadError
        THEN [writes |-> w_manual \o w_mode \o w_base \o w_test, ends |-> "os_error"]
        ELSE IF new = Garbage
        THEN [writes |-> w_manual \o w_mode \o w_base \o w_test, ends |-> "value_error"]
        ELSE [writes |-> w_manual \o w_mode \o w_base \o w_test \o w_back,
              ends   |-> "next"]

\* lines 293-351: the for loop over the modes from the k-th on
RECURSIVE TestModeLoop(_, _, _)
TestModeLoop(a, k, rpm) ==
    IF k > Len(ModesToTest(a)) THEN [writes |-> << >>, ends |-> "completed"]
    ELSE LET pass == TestModePass(a, k, rpm)
         IN  IF pass.ends # "next" THEN pass
             ELSE LET rest == TestModeLoop(a, k + 1, rpm)
                  IN  [writes |-> pass.writes \o rest.writes, ends |-> rest.ends]

\* lines 278-351: the try block
TestTry(a, rpm) ==
    IF rpm[1] = Garbage THEN [writes |-> << >>, ends |-> "value_error"]
    ELSE TestModeLoop(a, 1, rpm)

\* lines 404-408: the finally clause
TestFinally(a) ==
    << TestWrite("mode", a, mode_file[a], mode_rw[a]),
       TestWrite("pwm", a, pwm_file[a], PwmWriteOk(a)),
       TestWrite("enable", a, enable_file[a], EnableWriteOk(a)) >>

\* how the pass of the loop of line 254 for channel a ends
TestOutcome(a, rpm) ==
    IF ~HasFanSensor(a) THEN "no_fan"
    ELSE IF rpm[1] = ReadError THEN "raised_before"
    ELSE IF mode_file[a] = "missing" \/ rpm[1] = NoFile THEN "unreadable"
    ELSE TestTry(a, rpm).ends

\* the channel test whose restore is skipped when the try block is left by
\* an exception
TestWritesNoFinally(a, rpm) ==
    IF TestOutcome(a, rpm) \in {"no_fan", "raised_before", "unreadable"} THEN << >>
    ELSE IF TestOutcome(a, rpm) = "completed"
    THEN TestTry(a, rpm).writes \o TestFinally(a)
    ELSE TestTry(a, rpm).writes

\* ... and its file writes, in order
TestWrites(a, rpm) ==
    IF TestOutcome(a, rpm) \in {"no_fan", "raised_before", "unreadable"} THEN << >>
    ELSE TestTry(a, rpm).writes \o TestFinally(a)

\* write_file for one write of the test on the contents f of the files
FilesAfterWrite(f, w) ==
    IF ~w.ok THEN f
    ELSE CASE w.file = "enable" ->
                [f EXCEPT !.enable[w.idx] = EnableAfterWrite(w.idx, w.value, @)]
           [] w.file = "pwm"    -> [f EXCEPT !.pwm[w.idx] = w.value]
           [] OTHER             -> [f EXCEPT !.mode[w.idx] = w.value]

RECURSIVE FilesAfter(_, _, _)
FilesAfter(ws, k, f) ==
    IF k > Len(ws) THEN f
    ELSE FilesAfter(ws, k + 1, FilesAfterWrite(f, ws[k]))

\* one pass of the loop of line 254 under the RPM reads rpm
TestChannel(rpm) ==
    /\ pc = "test_pwm"
    /\ i <= NumPwm
    /\ LET ws   == TestWrites(i, rpm)
           ends == TestOutcome(i, rpm)
           f    == FilesAfter(ws, 1, [enable |-> enable_file, pwm |-> pwm_file,
                                      mode |-> mode_file])
           left == ends \in {"raised_before", "os_error"}
       IN  /\ last_writes' = ws
           /\ enable_file' = f.enable
           /\ pwm_file' = f.pwm
           /\ mode_file' = f.mode
           /\ test_outcome' = [test_outcome EXCEPT ![i] = ends]
           /\ pc' = IF left \/ i = NumPwm THEN "done" ELSE "test_pwm"
           /\ exit_cause' = IF left THEN "test_exception"
                            ELSE IF i = NumPwm THEN "test_completed"
                            ELSE exit_cause
    /\ i' = i + 1
    /\ UNCHANGED << config_vars, curve_vars, registry_vars, loop_locals,
                    reading, all_temps, is_root, args, mode_rw,
                    iteration_count, keys, keys_typed >>

\* the machines the test runs on: with a fan sensor for no channel, for the
\* first, or for the first two
TestFanSensors ==
    { << >>, FanFiles,
      FanFiles \o << [path |-> "fan2_input", label |-> "nct6775_fan2"] >> }

TestInit ==
    /\ ConfigIs(DefaultConfig)
    /\ max_iterations = 0
    /\ is_interactive = FALSE
    /\ hw \in HwCases
    /\ pc = "main"
    /\ LoopVarsInit
    /\ temp_sensors = SensorFiles
    /\ fan_sensors \in TestFanSensors
    /\ probe = << >>
    /\ reading = << >>
    /\ all_temps = << >>
    /\ applies = 0
    /\ scenario = << >>
    /\ CurveIdle
    /\ is_root = TRUE
    /\ args \in { a \in AllArgs : a.test_pwm # a.test_pwm_full /\ ~a.auto /\ ~a.watch }
    /\ mode_file \in [Actuators -> {"1", "0", "missing"}]
    /\ \E rw \in BOOLEAN : mode_rw = [a \in Actuators |-> rw]
    /\ test_outcome = [a \in Actuators |-> "untested"]
    /\ devices = << >>
    /\ pwm_controls = [a \in Actuators |-> [device |-> 1, num |-> a]]
    /\ hwmon_path = 1
    /\ ramp_start = None

TestNext ==
    \/ MainDispatch
    \/ \E rpm \in RpmReads : TestChannel(rpm)

TestSpec == TestInit /\ [][TestNext]_vars

\* main from the privilege of the user and the flags on
MainInit ==
    /\ ConfigIs(DefaultConfig)
    /\ max_iterations \in {0, MaxIter}
    /\ is_interactive \in BOOLEAN
    /\ hw = [a \in Actuators |-> "ok"]
    /\ pc = "main"
    /\ LoopVarsInit
    /\ Discovered
    /\ CurveIdle
    /\ is_root \in BOOLEAN
    /\ args \in AllArgs
    /\ mode_file = [a \in Actuators |-> "1"]
    /\ mode_rw = [a \in Actuators |-> TRUE]
    /\ test_outcome = [a \in Actuators |-> "untested"]
    /\ devices = << >>
    /\ pwm_controls = [a \in Actuators |-> [device |-> 1, num |-> a]]
    /\ hwmon_path = 1
    /\ ramp_start = None

MainNext ==
    \/ MainDispatch
    \/ \E rpm \in RpmReads : TestChannel(rpm)
    \/ \E r \in Readings : WatchTick(r)
    \/ WatchKey
    \/ Next

MainSpec == MainInit /\ [][MainNext]_vars

(***************************************************************************)
(* Properties                                                              *)
(***************************************************************************)
\* a step that is a pass of the while loop with a control temperature
TickStep == pc = "loop" /\ iteration_count' = iteration_count + 1

\* a step that is a pass of the while loop whose reading is empty
GapStep ==
    /\ pc = "loop"
    /\ pc' # "loop"
    /\ control_temps' = << >>
    /\ exit_cause' \notin {"interrupt", "read_exception"}

\* C1: every execution of auto_control that has written "1" to the enable
\* control of at least one actuator has run restore_all_bios_control by the
\* time it is left, whatever the exit cause (quit key, iteration cap,
\* exception in the loop, interrupt at any point after the first write).
C1_RestoreAfterManualStart ==
    (pc = "done" /\ manual_started) => restore_calls >= 1

\* C2: restore_all_bios_control is called exactly once in one auto_control
\* call: never twice, and once the call is over never zero times.
C2_ShutdownExactlyOnce ==
    /\ restore_calls <= 1
    /\ pc = "done" => restore_calls = 1

\* C3: current_pwm, when set, and every value written to a PWM file lie in
\* 0..255 in every reachable state.
C3_PwmClamped ==
    /\ current_pwm # None => (0 <= current_pwm /\ current_pwm <= 255)
    /\ \A a \in Actuators : 0 <= pwm_file[a] /\ pwm_file[a] <= 255
    /\ \A k \in 1..Len(last_writes) :
          last_writes[k].file = "pwm" =>
              (0 <= last_writes[k].value /\ last_writes[k].value <= 255)

\* C4: a pass of the loop whose control reading is empty prints the notice,
\* writes no file, leaves current_pwm alone, stays inside the running loop and
\* does not run the restore.
C4_GapTickKeepsRunning ==
    [][ GapStep =>
          /\ notice'
          /\ pc' \in Running
          /\ last_writes' = << >>
          /\ current_pwm' = current_pwm
          /\ pwm_file' = pwm_file
          /\ enable_file' = enable_file
          /\ restore_calls' = restore_calls ]_vars

\* C4 witness: the loop sleeps after the notice, having applied a PWM value on
\* an earlier pass.
C4_Witness ==
    pc = "gap_sleep" /\ notice /\ current_pwm # None /\ iteration_count >= 1

\* C5: once a quit key is pending, the loop runs at most one more pass before
\* the restore runs, in every situation of the running loop.
C5_QuitWithinOneTick == ticks_since_quit <= 1

\* C6: with an iteration cap configured, auto_control eventually terminates,
\* whatever the telemetry readings are.
C6_IterationCapTerminates == (max_iterations > 0) ~> (pc = "done")

\* pwm_min + (temp - temp_min) * (pwm_max - pwm_min) / (temp_max - temp_min),
\* in exact arithmetic, truncated toward zero
TruncQuot(a, b) == IF a >= 0 THEN a \div b ELSE -((-a) \div b)

ExactCurve(temp) ==
    IF temp <= temp_min THEN pwm_min
    ELSE IF temp >= temp_max THEN pwm_max
    ELSE TruncQuot(pwm_min * (temp_max - temp_min)
                     + (temp - temp_min) * (pwm_max - pwm_min),
                   temp_max - temp_min)

\* C7: calculate_pwm_from_temp returns pwm_min up to temp_min, pwm_max from
\* temp_max on, and in between the truncated value of the linear interpolation.
C7_CurveIsTruncatedInterpolation ==
    curve_temp # None => curve_out = ExactCurve(curve_temp)

ValidCurve == temp_min < temp_max /\ pwm_min <= pwm_max

Interior(t) == t # None /\ temp_min < t /\ t < temp_max

CurveMonotone ==
    (Interior(curve_temp) /\ Interior(curve_temp2) /\ curve_temp2 <= curve_temp)
        => curve_out2 <= curve_out

\* C8 as stated: between temp_min and temp_max the result is non-decreasing in
\* temp and lies strictly between pwm_min and pwm_max.
C8_StrictlyBetweenAndMonotone ==
    ValidCurve =>
        /\ Interior(curve_temp) => (pwm_min < curve_out /\ curve_out < pwm_max)
        /\ CurveMonotone

\* C8 amended: between temp_min and temp_max the result is non-decreasing in
\* temp and lies between pwm_min and pwm_max, both included.
C8_BetweenAndMonotone ==
    ValidCurve =>
        /\ Interior(curve_temp) => (pwm_min <= curve_out /\ curve_out <= pwm_max)
        /\ CurveMonotone

\* C8 witness: two temperatures inside the range, the lower one mapped to
\* pwm_min itself and the higher one to more.
C8_Witness ==
    /\ ValidCurve
    /\ Interior(curve_temp) /\ Interior(curve_temp2)
    /\ curve_temp2 < curve_temp
    /\ curve_out2 = pwm_min
    /\ curve_out2 < curve_out

\* C9: on a pass with a control reading, if current_pwm is absent or the
\* offset target is at least current_pwm, the applied PWM is the target.
C9_RiseAppliesTarget ==
    [][ (TickStep /\ (current_pwm = None \/ target_pwm' >= current_pwm))
            => current_pwm' = target_pwm' ]_vars

\* C10: on a pass with the offset target below current_pwm, the applied PWM p
\* is current_pwm - min(current_pwm - target, pwm_decrease_step), so that
\* current_pwm - p <= pwm_decrease_step and p >= target.
C10_FallIsRateLimited ==
    [][ (TickStep /\ current_pwm # None /\ target_pwm' < current_pwm)
            => /\ current_pwm' =
                    current_pwm - Min(current_pwm - target_pwm', pwm_decrease_step)
               /\ current_pwm - current_pwm' <= pwm_decrease_step
               /\ current_pwm' >= target_pwm'
               /\ \A k \in 1..Len(last_writes') :
                     last_writes'[k].value = current_pwm' ]_vars

\* C10 witness: a pass has lowered the PWM by a step and the target is still
\* below it.
C10_Witness ==
    /\ ramp_case = "fall"
    /\ pwm_decrease_step > 0
    /\ current_pwm > target_pwm
    /\ \E a \in Actuators : pwm_file[a] = current_pwm

\* the scenario starts with the temperatures 50, 90, 60
ScenarioIs509060 ==
    /\ Len(scenario) >= 3
    /\ scenario[1] = 50 /\ scenario[2] = 90 /\ scenario[3] = 60

\* the PWM value applied by the pass that made iteration_count = n is p
AppliedAt(n, p) ==
    (iteration_count = n /\ pc = "daemon_sleep")
        => (current_pwm = p /\ \A a \in Actuators : pwm_file[a] = p)

\* C11 as stated: with the default configuration, offset 0 and no previous
\* PWM, the control temperatures 50, 90, 60 make the three ticks apply 44,
\* then 255, then 250.
C11_Scenario44 ==
    ScenarioIs509060 =>
        (AppliedAt(1, 44) /\ AppliedAt(2, 255) /\ AppliedAt(3, 250))

\* C11 amended: the same scenario makes the three ticks apply 45, then 255,
\* then 250.
C11_Scenario45 ==
    ScenarioIs509060 =>
        (AppliedAt(1, 45) /\ AppliedAt(2, 255) /\ AppliedAt(3, 250))

\* C11 witness: the third tick of the scenario has applied 250.
C11_Witness ==
    /\ ScenarioIs509060
    /\ iteration_count = 3 /\ pc = "daemon_sleep"
    /\ current_pwm = 250 /\ target_pwm = 115
    /\ \A a \in Actuators : pwm_file[a] = 250

\* C12: every Increase / Decrease key changes manual_pwm_offset by +10 / -10
\* or, where that would leave -255..255, puts it on the bound; the offset is
\* within -255..255 after any sequence of keys.
C12_OffsetSaturates ==
    [][ /\ -255 <= manual_pwm_offset' /\ manual_pwm_offset' <= 255
        /\ \/ manual_pwm_offset' = manual_pwm_offset + 10
           \/ manual_pwm_offset' = manual_pwm_offset - 10
           \/ (manual_pwm_offset' = 255 /\ manual_pwm_offset + 10 > 255)
           \/ (manual_pwm_offset' = -255 /\ manual_pwm_offset - 10 < -255) ]_vars

\* C12 witness: Increase keys have taken the offset to the upper bound.
C12_Witness == manual_pwm_offset = 255 /\ pc = "manual_setup" /\ is_interactive

\* restore_all_bios_control has made the write w
Wrote(w) ==
    \E k \in 1..Len(last_writes) :
        /\ last_writes[k].file = w.file
        /\ last_writes[k].idx = w.idx
        /\ last_writes[k].value = w.value
        /\ last_writes[k].ok = w.ok

EnableWrite(a) ==
    [file |-> "enable", idx |-> a, value |-> "2", ok |-> EnableWriteOk(a)]

FallbackWrite(a) ==
    [file |-> "pwm", idx |-> a, value |-> 128, ok |-> PwmWriteOk(a)]

\* the read-back of pwmN_enable returned a value (it did not raise)
ReadbackReturned(a) == hw[a] # "readback_err"

\* C13: after Shutdown, every actuator whose enable file was written with "2"
\* and whose read-back did not raise is treated by the outcome: if the write
\* failed or the read-back is not "2", 128 was written to its PWM file and it
\* is listed as failed; if the read-back is "2", no fallback write was made
\* and it is not listed as failed; success_count counts the latter.
C13_RestorationFallback ==
    (pc = "done" /\ restore_calls = 1) =>
        /\ \A a \in Actuators :
              (Wrote(EnableWrite(a)) /\ ReadbackReturned(a)) =>
                  IF EnableWriteOk(a) /\ enable_file[a] = "2"
                  THEN /\ ~Wrote(FallbackWrite(a))
                       /\ a \notin restore_report.failed_pwms
                  ELSE /\ Wrote(FallbackWrite(a))
                       /\ a \in restore_report.failed_pwms
                       /\ PwmWriteOk(a) => pwm_file[a] = 128
        /\ restore_report.success_count =
              Cardinality({ a \in Actuators :
                              /\ Wrote(EnableWrite(a)) /\ ReadbackReturned(a)
                              /\ EnableWriteOk(a) /\ enable_file[a] = "2" })

\* C13 witness: Shutdown has run with one actuator that keeps "1" when "2" is
\* written (fallback made) and one that reads back "2" (no fallback).
C13_Witness ==
    /\ pc = "done" /\ restore_calls = 1
    /\ \E a, b \in Actuators :
          /\ hw[a] = "no_auto" /\ enable_file[a] = "1" /\ pwm_file[a] = 128
          /\ Wrote(FallbackWrite(a)) /\ a \in restore_report.failed_pwms
          /\ hw[b] = "ok" /\ enable_file[b] = "2" /\ ~Wrote(FallbackWrite(b))
          /\ restore_report.success_count = 1

\* C14: Shutdown writes the enable file of every actuator, whatever failed
\* before, and is not left by an exception.
C14_ShutdownAttemptsAllNeverRaises ==
    (pc = "done" /\ restore_calls = 1) =>
        /\ \A a \in Actuators : Wrote(EnableWrite(a))
        /\ ~restore_report.raised

\* C15: a pass of the loop that computes a PWM value outside 0..255 writes
\* no file; one that computes a valid value attempts the write on every
\* actuator, each actuator that takes the write holds the value afterwards
\* whatever happened to the others, and the loop goes on (it is left only by
\* the iteration cap).
C15_ApplyWritesEveryActuator ==
    [][ TickStep =>
          /\ IF 0 <= current_pwm' /\ current_pwm' <= 255
             THEN /\ Len(last_writes') = NumPwm
                  /\ \A a \in Actuators :
                        /\ last_writes'[a].file = "pwm"
                        /\ last_writes'[a].idx = a
                        /\ last_writes'[a].value = current_pwm'
                        /\ pwm_file'[a] = IF PwmWriteOk(a) THEN current_pwm'
                                          ELSE pwm_file[a]
             ELSE last_writes' = << >> /\ pwm_file' = pwm_file
          /\ enable_file' = enable_file
          /\ \/ pc' \in Running
             \/ (pc' = "finally" /\ exit_cause' = "max_iterations") ]_vars

\* C15 witness: a pass has just written a value, the first actuator refused
\* it, the second holds it, and the loop is still running.
C15_Witness ==
    /\ pc \in {"key_sleep", "daemon_sleep"}
    /\ Len(last_writes) = NumPwm
    /\ ~last_writes[1].ok /\ pwm_file[1] # current_pwm
    /\ last_writes[2].ok /\ pwm_file[2] = current_pwm

\* C16: a round of set_pwm_value that repeats the valid value of the round
\* before it leaves the PWM file and the enable file of every actuator as
\* that round left them.
C16_ApplyIdempotent ==
    [][ (applies >= 1 /\ applies' >= 2) =>
          (pwm_file' = pwm_file /\ enable_file' = enable_file) ]_vars

\* C16 witness: one value has been written twice in succession; an actuator
\* that takes writes holds it, the actuator that refuses them holds its old
\* value.
C16_Witness ==
    /\ applies = 2
    /\ Len(last_writes) = NumPwm
    /\ hw[1] = "pwm_ro" /\ pwm_file[1] = InitialPwm
    /\ pwm_file[2] = last_writes[2].value /\ pwm_file[2] # InitialPwm

ConfigFault ==
    \/ temp_min >= temp_max
    \/ pwm_min > pwm_max
    \/ pwm_min < 0 \/ pwm_min > 255
    \/ pwm_max < 0 \/ pwm_max > 255

\* C17: with out-of-order or out-of-range bounds the program stops at
\* startup: no enable file and no PWM file is ever written and the control
\* loop is never entered.
C17_ConfigFaultIsFatal ==
    ConfigFault =>
        /\ ~manual_started
        /\ last_writes = << >>
        /\ \A a \in Actuators :
              enable_file[a] = InitialEnable /\ pwm_file[a] = InitialPwm
        /\ pc \notin Running

\* the candidate f is in the registry
InRegistry(f) == \E k \in 1..Len(temp_sensors) : temp_sensors[k] = f

\* the validation read of f gave a number v with 0 < v <= 120 degrees
ProbeInBand(f) ==
    /\ probe[f.path] \notin {NoFile, ReadError, EmptyText, Garbage}
    /\ 0 < probe[f.path] /\ probe[f.path] <= 120000

\* C18: after discovery a temp*_input file is in the registry exactly if its
\* validation read gave a value v with 0 < v <= 120 degrees, and every fan
\* input is in the fan registry whatever it reports.
C18_DiscoveryValidates ==
    pc = "constructed" =>
        /\ \A s \in 1..Len(SensorFiles) :
              SensorFiles[s].path # "nvidia-smi" =>
                  (InRegistry(SensorFiles[s]) <=> ProbeInBand(SensorFiles[s]))
        /\ fan_sensors = FanFiles

\* C19: the loop is left only by the quit key, the iteration cap or an
\* interrupt: a failing read of one sensor does not end it.
C19_ReadFaultStaysRunning ==
    [][ (pc \in Running /\ pc' \notin Running) =>
            exit_cause' \in {"quit", "max_iterations", "interrupt"} ]_vars

\* the source f answered r with a value inside the band 0 < v < 120 degrees
ReadingInBand(f, r) ==
    /\ r[f.path] \notin {NoFile, ReadError}
    /\ 0 < r[f.path]
    /\ IF f.path = "nvidia-smi" THEN r[f.path] < 120 ELSE r[f.path] < 120000

\* C20: a reader call that returns leaves the registry as it was, and its
\* results hold a registered source exactly if the source's reading of this
\* call is inside the band, whatever it read before.
C20_ReaderOmitsThisTickOnly ==
    [][ (pc = "constructed" /\ pc' = "constructed") =>
          /\ temp_sensors' = temp_sensors
          /\ \A k \in 1..Len(temp_sensors) :
                /\ (temp_sensors[k].label \in DOMAIN all_temps')
                      <=> ReadingInBand(temp_sensors[k], reading')
                /\ k \in ControlSensors =>
                      ((temp_sensors[k].label \in DOMAIN control_temps')
                          <=> ReadingInBand(temp_sensors[k], reading')) ]_vars

\* the write of "1" to the enable file of actuator a
ManualWrite(a) ==
    [file |-> "enable", idx |-> a, value |-> "1", ok |-> EnableWriteOk(a)]

\* a step of auto_control before the try block that no signal cut short
SetupStep == pc \in {"manual_setup", "sleep1"} /\ exit_cause' = exit_cause /\ keys' = keys

\* C21: the setup writes "1" to the enable file of every actuator in turn,
\* a write that fails is followed by the write to the next actuator, and once
\* the last write was attempted the loop is entered whether all, some or none
\* of the writes succeeded.
C21_ManualSetupContinues ==
    [][ SetupStep =>
          /\ pc = "manual_setup" =>
                /\ i \in Actuators
                /\ last_writes' = << ManualWrite(i) >>
                /\ i' = i + 1
                /\ pc' = IF i = NumPwm THEN "sleep1" ELSE "manual_setup"
          /\ pc = "sleep1" => (i = NumPwm + 1 /\ pc' = "loop") ]_vars

\* C21 witness: the loop is running although the write to the first enable
\* file failed and the write to the second was made after it.
C21_Witness ==
    /\ pc = "loop"
    /\ i = NumPwm + 1
    /\ ~EnableWriteOk(1) /\ enable_file[1] = InitialEnable
    /\ EnableWriteOk(2) /\ enable_file[2] = "1"

\* a write to a PWM file was made in the last step
PwmWritten == \E k \in 1..Len(last_writes) : last_writes[k].file = "pwm"

\* C22: a PWM value is written only by a step of the program taken from inside the loop (or
\* by the restore that follows it), when the write of "1" to the enable file
\* of every actuator has been attempted; before the loop is entered the PWM
\* files hold what they held at the start.
C22_HandoffBeforeActuation ==
    [][ /\ (PwmWritten' /\ keys_typed' = keys_typed) =>
              (pc \in {"loop", "finally"} /\ i = NumPwm + 1)
        /\ pc' \in {"manual_setup", "sleep1"} =>
              pwm_file' = [a \in Actuators |-> InitialPwm] ]_vars

\* C22 witness: the first tick has written a PWM value after the enable
\* files of both actuators were written.
C22_Witness ==
    /\ iteration_count = 1
    /\ PwmWritten
    /\ i = NumPwm + 1
    /\ \A a \in Actuators : enable_file[a] = "1"

\* labels of the registry entries of the devices coretemp and nvidia
ControlLabels == { temp_sensors[s].label : s \in ControlSensors }

\* C23: on every tick with a control reading the value applied is
\* RampSmoother(current_pwm, clamp(TargetPwm(max) + manual_pwm_offset, 0, 255))
\* where max is the highest temperature among the sources of the devices
\* coretemp and nvidia only, and TargetPwm is the truncated interpolation.
C23_TickAppliesRampOfTarget ==
    [][ TickStep =>
          /\ control_temps' # << >>
          /\ DOMAIN control_temps' \subseteq ControlLabels
          /\ current_pwm' =
                RampSmoother(current_pwm,
                             Clamp(ExactCurve(MaxOf(Range(control_temps')))
                                     + manual_pwm_offset, 0, 255))
          /\ \A k \in 1..Len(last_writes') :
                last_writes'[k].value = current_pwm' ]_vars

\* a step in which the wait after a tick observes an Increase or Decrease key
KeyObserved ==
    /\ pc = "key_sleep"
    /\ keys # << >>
    /\ Head(keys) \in {"w", "s"}
    /\ keys' = Tail(keys)

\* C24: an Increase or Decrease key observed during the wait after a tick
\* ends the wait at once with the offset adjusted, and the step that follows
\* from the head of the loop is a pass of the loop, never a sleep, whose
\* target is computed with the offset as it then stands.
C24_KeyForcesRetick ==
    [][ /\ KeyObserved =>
              /\ pc' = "loop"
              /\ manual_pwm_offset' = OffsetAfterKey(manual_pwm_offset, Head(keys))
        /\ (pc = "loop" /\ pc' # "loop"
              /\ exit_cause' \notin {"interrupt", "read_exception"}) =>
              (TickStep \/ GapStep)
        /\ TickStep =>
              target_pwm' =
                 Clamp(calculate_pwm_from_temp(MaxOf(Range(control_temps')))
                         + manual_pwm_offset, 0, 255) ]_vars

\* C24 witness: after the first tick an Increase key was observed and the
\* second tick, at 70 C, has the target of the curve raised by ten.
C24_Witness ==
    /\ iteration_count = 2
    /\ manual_pwm_offset = 10
    /\ keys = << >>
    /\ ConfigIs(DefaultConfig)
    /\ target_pwm = 195

\* C25: current_pwm is None exactly as long as no tick has been made; it is
\* assigned by the ramp step of a tick and by nothing else; and after a tick
\* it is the value the actuators were last given (every PWM file that takes
\* writes holds it).
C25_CurrentPwmIsLastApplied ==
    [][ /\ (current_pwm' = None) <=> (iteration_count' = 0)
        /\ current_pwm' # current_pwm =>
              (TickStep /\ current_pwm' = RampSmoother(current_pwm, target_pwm'))
        /\ TickStep =>
              \A a \in Actuators : PwmWriteOk(a) => pwm_file'[a] = current_pwm'
      ]_vars

\* devices that hold a controllable channel
Yielding == { d \in 1..Len(devices) :
                \E n \in 1..NumPwm : devices[d][n] = "controllable" }

\* C26: after discovery hwmon_path is the first device that yields an
\* actuator, every registered actuator belongs to that device, and the
\* temperature and fan sources of every device are registered.
C26_ActuatorsOfOneDevice ==
    pc = "constructed" =>
        /\ Yielding # {} =>
              /\ hwmon_path \in Yielding
              /\ \A d \in Yielding : hwmon_path <= d
        /\ \A k \in 1..Len(pwm_controls) : pwm_controls[k].device = hwmon_path
        /\ temp_sensors = SensorFiles
        /\ fan_sensors = FanFiles

\* ceil(a / b) for a >= 0 and b >= 1
CeilDiv(a, b) == (a + b - 1) \div b

\* ticks within which the ramp is to have reached the target
TicksNeeded ==
    IF ramp_start = None \/ ramp_start < target_pwm THEN 1
    ELSE CeilDiv(ramp_start - target_pwm, pwm_decrease_step)

\* C27: under an offset target that stays at T, with pwm_decrease_step >= 1,
\* current_pwm reaches T and stays there; starting above T it is there
\* within ceil((current_pwm - T) / pwm_decrease_step) ticks, and on the way
\* it never rises and never goes below T.
C27_RampConverges ==
    /\ [][ (ramp_start # None /\ ramp_start >= target_pwm) =>
              (current_pwm' <= current_pwm /\ current_pwm' >= target_pwm) ]_vars
    /\ [](iteration_count >= TicksNeeded => current_pwm = target_pwm)
    /\ <>[](current_pwm = target_pwm)

\* C27 witness: from 255 with a step of 100 the target 115 is reached by the
\* second tick, whose fall is the 40 that were left.
C27_Witness ==
    /\ ramp_start = 255
    /\ target_pwm = 115
    /\ pwm_decrease_step = 100
    /\ iteration_count = 2
    /\ current_pwm = 115
    /\ ramp_case = "fall"

\* the step in which restore_all_bios_control runs and auto_control is left
RestoreStep == pc = "finally" /\ pc' = "done"

\* C28: once the restore has begun no tick writes a PWM value any more: the
\* restore gives every actuator a last write that is the write of "2" to its
\* enable file or the fallback write of 128, and after it nothing is written.
C28_RestoreWritesAreLast ==
    [][ /\ RestoreStep =>
              /\ \A a \in Actuators :
                    \E k \in 1..Len(last_writes') : last_writes'[k].idx = a
              /\ \A k \in 1..Len(last_writes') :
                    \/ /\ last_writes'[k].file = "enable"
                       /\ last_writes'[k].value = "2"
                    \/ /\ last_writes'[k].file = "pwm"
                       /\ last_writes'[k].value = 128
        /\ pc \in {"finally", "done"} => ~TickStep
        /\ pc = "done" =>
              (pwm_file' = pwm_file /\ enable_file' = enable_file
                 /\ last_writes' = last_writes) ]_vars

\* a step that is the test of channel i
TestStep == pc = "test_pwm" /\ i' = i + 1

\* C29: a run whose effective uid is not 0 writes no file of any actuator,
\* whatever the flags: it never enters auto_control or the channel test, and
\* the enable, PWM and mode files keep their contents.
C29_NonRootNeverWrites ==
    ~is_root =>
        /\ last_writes = << >>
        /\ pc \in {"main", "watch", "done"}
        /\ enable_file = [a \in Actuators |-> InitialEnable]
        /\ pwm_file = [a \in Actuators |-> InitialPwm]
        /\ mode_file = [a \in Actuators |-> "1"]
        /\ \A a \in Actuators : test_outcome[a] = "untested"

\* C29 witness: a user who is not root is watching and the display has read
\* the sensors.
C29_Witness ==
    /\ ~is_root
    /\ pc = "watch"
    /\ iteration_count >= 1
    /\ all_temps # << >>

\* C30: the test of a channel that writes anything ends with the writes of
\* the mode, the PWM value and the enable value read at its start, in that
\* order, on every path; a channel skipped before the test gets no write;
\* and the files of the channel hold afterwards what they held before.
C30_TestRestoresChannel ==
    [][ TestStep =>
          LET n == Len(last_writes')
          IN  /\ test_outcome'[i] \in {"no_fan", "unreadable", "raised_before"} => n = 0
              /\ \A k \in 1..n : last_writes'[k].idx = i
              /\ n > 0 =>
                    /\ n >= 3
                    /\ last_writes'[n - 2].file = "mode"
                    /\ last_writes'[n - 2].value = mode_file[i]
                    /\ last_writes'[n - 1].file = "pwm"
                    /\ last_writes'[n - 1].value = pwm_file[i]
                    /\ last_writes'[n].file = "enable"
                    /\ last_writes'[n].value = enable_file[i]
              /\ enable_file' = enable_file
              /\ pwm_file' = pwm_file
              /\ mode_file' = mode_file ]_vars

\* C30 witness: the comprehensive test of the first channel changed the mode
\* to DC, met an RPM text that is not a number, and ended with the three
\* restoring writes.
C30_Witness ==
    /\ i = 2
    /\ test_outcome[1] = "value_error"
    /\ mode_file[1] = "1"
    /\ Len(last_writes) >= 6
    /\ \E k \in 1..Len(last_writes) :
          /\ last_writes[k].file = "mode"
          /\ last_writes[k].value = "0"
          /\ last_writes[k].ok
    /\ last_writes[Len(last_writes)].file = "enable"

====
